---- MODULE Spec2Model ----
(***************************************************************************)
(* A model of chibicc_rust: the library tokenizer (src/tokenizer.rs), the  *)
(* recursive-descent parser (src/parser.rs) and the code generator         *)
(* (src/code_generator.rs).                                                *)
(*                                                                         *)
(* Texts are sequences of one-character strings, so that scanning,         *)
(* slicing and number parsing are computed, not assumed.  Only ASCII       *)
(* input is modelled (byte index = character index).                       *)
(***************************************************************************)
EXTENDS Integers, Sequences, FiniteSets, TLC

VARIABLES
    s,              \* tokenizer: the source text handed to TokenQueue::tokenizer
    i,              \* tokenizer: the scan position
    tokens,         \* tokenizer: rv, the queue under construction / returned
    pc,             \* where the pipeline stands
    token_queue,    \* Parser.token_queue
    locals,         \* Parser.locals      (name -> VarTableItem)
    locals_dequeue, \* Parser.locals_dequeue
    stack_size,     \* Parser.stack_size
    nodes,          \* the statement list built by Parser::program
    depth,          \* CodeGenerator.depth
    counter,        \* CodeGenerator.counter
    out,            \* standard output: the lines printed so far
    work,           \* code generator: the pending calls (its call stack)
    args            \* main.rs: the positional arguments of the command line

vars == << s, i, tokens, pc, token_queue, locals, locals_dequeue, stack_size,
           nodes, depth, counter, out, work, args >>

lexVars == << s, i, tokens, args >>
parserVars == << token_queue, locals, locals_dequeue, stack_size, nodes >>
genVars == << depth, counter, out, work >>

(***************************************************************************)
(* Bounds of the model.                                                    *)
(***************************************************************************)
MaxPieces == 3      \* fragments of a source text
MaxStmtPieces == 3  \* statement fragments of a token queue
MaxExprPieces == 3  \* expression tokens of a token queue
MaxDecls == 3       \* declarators of a declaration
MaxRefPieces == 3   \* tokens of a pointer or assignment expression
MaxTokenizerPieces == 3  \* fragments of a source text of the tokenizer alone
MaxMainPieces == 3  \* fragments of the first argument of main
MaxArgs == 2        \* arguments of main

(***************************************************************************)
(* Characters and texts.                                                   *)
(***************************************************************************)
Digits == {"0", "1", "2", "3", "4", "5", "6", "7", "8", "9"}

Lower == {"a", "b", "c", "d", "e", "f", "g", "h", "i", "j", "k", "l", "m",
          "n", "o", "p", "q", "r", "s", "t", "u", "v", "w", "x", "y", "z"}

Upper == {"A", "B", "C", "D", "E", "F", "G", "H", "I", "J", "K", "L", "M",
          "N", "O", "P", "Q", "R", "S", "T", "U", "V", "W", "X", "Y", "Z"}

is_digit(c) == c \in Digits

is_alpha(c) == c \in Lower \cup Upper \cup {"_"}

is_alpha_num(c) == is_alpha(c) \/ is_digit(c)

DigitVal(c) ==
    CASE c = "0" -> 0 [] c = "1" -> 1 [] c = "2" -> 2 [] c = "3" -> 3
      [] c = "4" -> 4 [] c = "5" -> 5 [] c = "6" -> 6 [] c = "7" -> 7
      [] c = "8" -> 8 [] c = "9" -> 9

I32Max == 2147483647

\* num.parse::<i32>() on a digit run: the digits are folded left to right
\* into acc; the result is Err as soon as acc * 10 + digit passes i32::MAX.
RECURSIVE ParseI32From(_, _, _)
ParseI32From(raw, k, acc) ==
    IF k > Len(raw) THEN [ok |-> TRUE, val |-> acc]
    ELSE IF acc > (I32Max - DigitVal(raw[k])) \div 10
         THEN [ok |-> FALSE, val |-> 0]
         ELSE ParseI32From(raw, k + 1, acc * 10 + DigitVal(raw[k]))

ParseI32(raw) ==
    IF raw = <<>> THEN [ok |-> FALSE, val |-> 0] ELSE ParseI32From(raw, 1, 0)

(***************************************************************************)
(* Tokens.                                                                 *)
(***************************************************************************)
TkReserved(keyword) == [tk |-> "TkReserved", text |-> keyword, val |-> 0]
TkNum(raw, v) == [tk |-> "TkNum", text |-> raw, val |-> v]
TkIdent(name) == [tk |-> "TkIdent", text |-> name, val |-> 0]
TkEof == [tk |-> "TkEof", text |-> <<>>, val |-> 0]

KwReturn == <<"r", "e", "t", "u", "r", "n">>
KwIf == <<"i", "f">>
KwElse == <<"e", "l", "s", "e">>
KwFor == <<"f", "o", "r">>
KwWhile == <<"w", "h", "i", "l", "e">>
KwInt == <<"i", "n", "t">>

(***************************************************************************)
(* The tokenizer's scanning helpers.  Each returns the new position (and   *)
(* the text it extracted, <<>> standing for None).                         *)
(***************************************************************************)
\* skip_whitespace's loop: the end of the run of spaces from position j
\* (0-based).
RECURSIVE SpaceRunEnd(_, _)
SpaceRunEnd(str, j) ==
    IF j < Len(str) /\ str[j + 1] = " " THEN SpaceRunEnd(str, j + 1) ELSE j

\* extract_digit's loop.
RECURSIVE DigitRunEnd(_, _)
DigitRunEnd(str, j) ==
    IF j < Len(str) /\ is_digit(str[j + 1]) THEN DigitRunEnd(str, j + 1) ELSE j

\* extract_ident's loop.
RECURSIVE IdentRunEnd(_, _)
IdentRunEnd(str, j) ==
    IF j < Len(str) /\ is_alpha_num(str[j + 1])
    THEN IdentRunEnd(str, j + 1) ELSE j

\* skip_whitespace that skips one space at most
skip_whitespace_once(str, j) ==
    IF j < Len(str) /\ str[j + 1] = " " THEN j + 1 ELSE j

skip_whitespace(str, j) ==
    IF j >= Len(str) THEN j ELSE SpaceRunEnd(str, j)

\* [i |-> new position, rv |-> the digit run, found |-> Some/None]
extract_digit(str, j) ==
    IF j >= Len(str) THEN [i |-> j, rv |-> <<>>, found |-> FALSE]
    ELSE LET e == DigitRunEnd(str, j)
         IN  [i |-> e, rv |-> SubSeq(str, j + 1, e), found |-> e > j]

DoubleOps == { <<"=", "=">>, <<"!", "=">>, <<"<", "=">>, <<">", "=">> }

SingleOps == {"+", "-", "*", "/", "(", ")", "<", ">", ";", "=", "{", "}"}

extract_reserve(str, j) ==
    IF j >= Len(str) THEN [i |-> j, rv |-> <<>>, found |-> FALSE]
    ELSE IF j + 1 < Len(str) /\ SubSeq(str, j + 1, j + 2) \in DoubleOps
         THEN [i |-> j + 2, rv |-> SubSeq(str, j + 1, j + 2), found |-> TRUE]
    ELSE IF str[j + 1] \in SingleOps
         THEN [i |-> j + 1, rv |-> << str[j + 1] >>, found |-> TRUE]
    ELSE [i |-> j, rv |-> <<>>, found |-> FALSE]

extract_ident(str, j) ==
    IF j >= Len(str) \/ ~is_alpha(str[j + 1])
    THEN [i |-> j, rv |-> <<>>, found |-> FALSE]
    ELSE LET e == IdentRunEnd(str, j + 1)
         IN  [i |-> e, rv |-> SubSeq(str, j + 1, e), found |-> TRUE]

LexKeywords == {KwReturn, KwIf, KwElse, KwFor, KwWhile}

\* generate_token that returns Ok at an unexpected character and leaves the
\* position where it was
generate_token_stuck(str, j, q) ==
    LET j1 == skip_whitespace(str, j)
        d  == extract_digit(str, j1)
        r  == extract_reserve(str, j1)
        id == extract_ident(str, j1)
    IN  IF d.found
        THEN IF ParseI32(d.rv).ok
             THEN [st |-> "ok", i |-> d.i,
                   q |-> Append(q, TkNum(d.rv, ParseI32(d.rv).val))]
             ELSE [st |-> "err", i |-> d.i, q |-> q]
        ELSE IF r.found
        THEN [st |-> "ok", i |-> r.i, q |-> Append(q, TkReserved(r.rv))]
        ELSE IF id.found
        THEN [st |-> "ok", i |-> id.i,
              q |-> Append(q, IF id.rv \in LexKeywords
                              THEN TkReserved(id.rv) ELSE TkIdent(id.rv))]
        ELSE IF j1 >= Len(str)
        THEN [st |-> "ok", i |-> j1, q |-> q]
        ELSE [st |-> "ok", i |-> j, q |-> q]

\* generate_token that marks the end of input itself
generate_token_eof(str, j, q) ==
    LET j1 == skip_whitespace(str, j)
        d  == extract_digit(str, j1)
        r  == extract_reserve(str, j1)
        id == extract_ident(str, j1)
    IN  IF d.found
        THEN IF ParseI32(d.rv).ok
             THEN [st |-> "ok", i |-> d.i,
                   q |-> Append(q, TkNum(d.rv, ParseI32(d.rv).val))]
             ELSE [st |-> "err", i |-> d.i, q |-> q]
        ELSE IF r.found
        THEN [st |-> "ok", i |-> r.i, q |-> Append(q, TkReserved(r.rv))]
        ELSE IF id.found
        THEN [st |-> "ok", i |-> id.i,
              q |-> Append(q, IF id.rv \in LexKeywords
                              THEN TkReserved(id.rv) ELSE TkIdent(id.rv))]
        ELSE IF j1 >= Len(str)
        THEN [st |-> "ok", i |-> j1, q |-> Append(q, TkEof)]
        ELSE [st |-> "err", i |-> j1, q |-> q]

\* One call of generate_token: [st |-> "ok" | "err", i |-> position,
\* q |-> the queue afterwards].
generate_token(str, j, q) ==
    LET j1 == skip_whitespace(str, j)
        d  == extract_digit(str, j1)
        r  == extract_reserve(str, j1)
        id == extract_ident(str, j1)
    IN  IF d.found
        THEN IF ParseI32(d.rv).ok
             THEN [st |-> "ok", i |-> d.i,
                   q |-> Append(q, TkNum(d.rv, ParseI32(d.rv).val))]
             ELSE [st |-> "err", i |-> d.i, q |-> q]
        ELSE IF r.found
        THEN [st |-> "ok", i |-> r.i, q |-> Append(q, TkReserved(r.rv))]
        ELSE IF id.found
        THEN [st |-> "ok", i |-> id.i,
              q |-> Append(q, IF id.rv \in LexKeywords
                              THEN TkReserved(id.rv) ELSE TkIdent(id.rv))]
        ELSE IF j1 >= Len(str)
        THEN [st |-> "ok", i |-> j1, q |-> q]
        ELSE [st |-> "err", i |-> j1, q |-> q]

\* tokenizer, run to its end: [st, q]
RECURSIVE tokenizer_loop(_, _, _)
tokenizer_loop(str, j, q) ==
    IF j >= Len(str) THEN [st |-> "ok", q |-> Append(q, TkEof)]
    ELSE LET r == generate_token(str, j, q)
         IN  IF r.st # "ok" THEN [st |-> "err", q |-> r.q]
             ELSE tokenizer_loop(str, r.i, r.q)

tokenizer(str) == tokenizer_loop(str, 0, <<>>)

(***************************************************************************)
(* Types and AST nodes.  Option<Box<Node>> is a node or None.              *)
(***************************************************************************)
I32 == [t |-> "I32"]
Ptr(base) == [t |-> "Ptr", base |-> base]

None == [kind |-> "None"]

Num(v) == [kind |-> "Num", val |-> v, type |-> I32]
Var(name, ty) == [kind |-> "Var", name |-> name, type |-> ty]
Unary(kind, lhs, ty) == [kind |-> kind, lhs |-> lhs, type |-> ty]
Binary(kind, lhs, rhs, ty) ==
    [kind |-> kind, lhs |-> lhs, rhs |-> rhs, type |-> ty]
Return(lhs) == [kind |-> "Return", lhs |-> lhs]
ExprStmt(expr) == [kind |-> "ExprStmt", expr |-> expr]
If(cond, then, els) ==
    [kind |-> "If", cond |-> cond, then |-> then, els |-> els]
For(init, cond, inc, then) ==
    [kind |-> "For", init |-> init, cond |-> cond, inc |-> inc, then |-> then]
Block(ns) == [kind |-> "Block", nodes |-> ns]

TypedKinds == {"Var", "Add", "Sub", "Mul", "Div", "Neg", "Assign", "Eq", "Ne",
               "Lt", "Le", "Num", "Addr", "Deref"}

\* Node::get_type: <<the type>> for Some, <<>> for None.
get_type(node) == IF node.kind \in TypedKinds THEN << node.type >> ELSE <<>>

is_ptr_node(node) == node.kind \in TypedKinds /\ node.type.t = "Ptr"

is_var(node) == node.kind = "Var"

is_num(node) == node.kind = "Num"

(***************************************************************************)
(* TokenQueue operations used by the parser.  Each returns the queue it    *)
(* leaves behind together with its result.                                 *)
(***************************************************************************)
\* pops the front token whatever it is, then looks at it
except_num(tq) ==
    IF tq = <<>> THEN [st |-> "err", val |-> 0, tq |-> tq]
    ELSE IF Head(tq).tk = "TkNum"
         THEN [st |-> "ok", val |-> Head(tq).val, tq |-> Tail(tq)]
         ELSE [st |-> "err", val |-> 0, tq |-> Tail(tq)]

\* consume_reserve that also pops a reserved token of another text
consume_reserve_pops(tq, op) ==
    IF tq = <<>> THEN [st |-> "err", val |-> FALSE, tq |-> tq]
    ELSE IF Head(tq).tk = "TkReserved"
         THEN [st |-> "ok", val |-> Head(tq).text = op, tq |-> Tail(tq)]
         ELSE [st |-> "ok", val |-> FALSE, tq |-> tq]

consume_reserve(tq, op) ==
    IF tq = <<>> THEN [st |-> "err", val |-> FALSE, tq |-> tq]
    ELSE IF Head(tq).tk = "TkReserved" /\ Head(tq).text = op
         THEN [st |-> "ok", val |-> TRUE, tq |-> Tail(tq)]
         ELSE [st |-> "ok", val |-> FALSE, tq |-> tq]

expect_reserve(tq, op) ==
    LET c == consume_reserve(tq, op)
    IN  IF c.st = "ok" /\ c.val THEN [st |-> "ok", tq |-> c.tq]
        ELSE [st |-> "err", tq |-> c.tq]

\* name = <<>> stands for Ok(None)
consume_ident(tq) ==
    IF tq = <<>> THEN [st |-> "err", name |-> <<>>, tq |-> tq]
    ELSE IF Head(tq).tk = "TkIdent"
         THEN [st |-> "ok", name |-> Head(tq).text, tq |-> Tail(tq)]
         ELSE [st |-> "ok", name |-> <<>>, tq |-> tq]

\* at_eof indexes position 0: "ok" with the answer, or a panic on an empty
\* queue.
at_eof(tq) ==
    IF tq = <<>> THEN [st |-> "panic", val |-> FALSE]
    ELSE [st |-> "ok", val |-> Head(tq) = TkEof]

\* Called by compound_stmt; a peek at the front token that consumes nothing.
is_reserve(tq, op) ==
    tq # <<>> /\ Head(tq).tk = "TkReserved" /\ Head(tq).text = op

(***************************************************************************)
(* The parser's own state is threaded through the parsing operators as a   *)
(* record p = [tq, locals, dq]; each returns [st, node, p] with st one of  *)
(* "ok", "err" (Err(MyError)) and "panic".                                 *)
(***************************************************************************)
PState(tq, ls, dq) == [tq |-> tq, locals |-> ls, dq |-> dq]

WithTq(p, tq) == [p EXCEPT !.tq = tq]

Ok(node, p) == [st |-> "ok", node |-> node, p |-> p]

Fail(st, p) == [st |-> st, node |-> None, p |-> p]

VarTableItem(offset, ty) == [offset |-> offset, type |-> ty]

\* find_var that makes up an int variable for an unknown name
find_var_default(p, name) ==
    IF name \in DOMAIN p.locals THEN << p.locals[name] >>
    ELSE << VarTableItem(0, I32) >>

\* locals is a function from the declared names to their items
find_var(p, name) ==
    IF name \in DOMAIN p.locals THEN << p.locals[name] >> ELSE <<>>

\* push_var that gives a name that is already declared its new type
push_var_rebind(p, name, ty) ==
    IF name \in DOMAIN p.locals
    THEN [p EXCEPT !.locals = [n \in DOMAIN p.locals |->
                                 IF n = name
                                 THEN VarTableItem(p.locals[n].offset, ty)
                                 ELSE p.locals[n]]]
    ELSE LET dq == << name >> \o p.dq
         IN  [p EXCEPT !.dq = dq,
                       !.locals = [n \in DOMAIN p.locals \cup {name} |->
                                     IF n = name
                                     THEN VarTableItem(Len(dq) * 8, ty)
                                     ELSE p.locals[n]]]

\* push_var that appends the name at the back of locals_dequeue
push_var_back(p, name, ty) ==
    IF name \in DOMAIN p.locals THEN p
    ELSE LET dq == Append(p.dq, name)
         IN  [p EXCEPT !.dq = dq,
                       !.locals = [n \in DOMAIN p.locals \cup {name} |->
                                     IF n = name
                                     THEN VarTableItem(Len(dq) * 8, ty)
                                     ELSE p.locals[n]]]

push_var(p, name, ty) ==
    IF name \in DOMAIN p.locals THEN p
    ELSE LET dq == << name >> \o p.dq
         IN  [p EXCEPT !.dq = dq,
                       !.locals = [n \in DOMAIN p.locals \cup {name} |->
                                     IF n = name
                                     THEN VarTableItem(Len(dq) * 8, ty)
                                     ELSE p.locals[n]]]

\* align_to that rounds down
align_to_down(n, align) == (n \div align) * align

align_to(n, align) == ((n + align - 1) \div align) * align

\* assign_lvar_offset's loop that gives position k the offset (k - 1) * 8
RECURSIVE AssignOffsets_from_zero(_, _, _)
AssignOffsets_from_zero(ls, dq, k) ==
    IF k > Len(dq) THEN ls
    ELSE AssignOffsets_from_zero([ls EXCEPT ![dq[k]].offset = (k - 1) * 8],
                                 dq, k + 1)

\* assign_lvar_offset's loop over locals_dequeue, from position k on
RECURSIVE AssignOffsets(_, _, _)
AssignOffsets(ls, dq, k) ==
    IF k > Len(dq) THEN ls
    ELSE AssignOffsets([ls EXCEPT ![dq[k]].offset = k * 8], dq, k + 1)

\* [stack_size, locals] after assign_lvar_offset
assign_lvar_offset(ls, dq) ==
    [stack_size |-> align_to(Len(dq) * 8, 16),
     locals |-> AssignOffsets(ls, dq, 1)]

(***************************************************************************)
(* The grammar.  `?` is Bind: an Err or a panic of the callee is returned  *)
(* at once, otherwise the caller goes on with the callee's result.         *)
(***************************************************************************)
Bind(r, Cont(_)) == IF r.st # "ok" THEN r ELSE Cont(r)

\* consume_reserve / expect_reserve on the parser's queue
Accepts(p, op) == consume_reserve(p.tq, op).val

Skip(p, op) == WithTq(p, consume_reserve(p.tq, op).tq)

Expect(p, op) ==
    [st |-> expect_reserve(p.tq, op).st, node |-> None,
     p |-> WithTq(p, expect_reserve(p.tq, op).tq)]

\* the first of ops (a sequence of texts) that the front token matches, or
\* <<>> when none does: the order of the if / else-if chain
RECURSIVE FirstMatch(_, _)
FirstMatch(p, ops) ==
    IF ops = <<>> THEN <<>>
    ELSE IF Accepts(p, Head(ops)) THEN Head(ops)
    ELSE FirstMatch(p, Tail(ops))

RECURSIVE stmt(_), compound_stmt_loop(_, _), declaration_loop(_, _, _, _),
          assign(_), equality_loop(_, _), relational_loop(_, _),
          add_loop(_, _), mul_loop(_, _), unary(_)

expr(p) == assign(p)

\* new_add without the test for two pointers
new_add_unchecked(node, p) ==
    IF node.kind # "Add" THEN Fail("err", p)
    ELSE IF (is_num(node.lhs) /\ is_var(node.rhs)) \/ is_ptr_node(node.rhs)
    THEN Ok([node EXCEPT !.lhs = node.rhs, !.rhs = node.lhs], p)
    ELSE IF is_ptr_node(node.lhs)
    THEN Ok([node EXCEPT !.rhs = Binary("Mul", node.rhs, Num(8), I32)], p)
    ELSE Ok(node, p)

\* Canonicalize `num + ptr` to `ptr + num`.
new_add(node, p) ==
    IF node.kind # "Add" THEN Fail("err", p)
    ELSE IF is_ptr_node(node.lhs) /\ is_ptr_node(node.rhs) THEN Fail("err", p)
    ELSE IF (is_num(node.lhs) /\ is_var(node.rhs)) \/ is_ptr_node(node.rhs)
    THEN Ok([node EXCEPT !.lhs = node.rhs, !.rhs = node.lhs], p)
    ELSE IF is_ptr_node(node.lhs)
    THEN Ok([node EXCEPT !.rhs = Binary("Mul", node.rhs, Num(8), I32)], p)
    ELSE Ok(node, p)

\* for support pointer - pointer and pointer - number
new_sub(node, p) ==
    IF node.kind # "Sub" THEN Fail("err", p)
    ELSE IF is_ptr_node(node.rhs) /\ ~is_ptr_node(node.lhs) THEN Fail("err", p)
    ELSE IF is_ptr_node(node.lhs) /\ is_ptr_node(node.rhs)
    THEN Ok(Binary("Div", node, Num(8), I32), p)
    ELSE IF is_ptr_node(node.lhs)
    THEN Ok(Binary("Sub", node.lhs, Binary("Mul", node.rhs, Num(8), I32),
                   node.lhs.type), p)
    ELSE Ok(node, p)

\* primary = "(" expr ")" | ident | num
\* The number is taken by the queue's number-expecting pop (written
\* expect_num at the call; the queue defines it as except_num).
primary(p) ==
    LET id == consume_ident(p.tq)
        item == find_var(p, id.name)
        n == except_num(p.tq)
    IN  IF consume_reserve(p.tq, << "(" >>).st # "ok" THEN Fail("err", p)
        ELSE IF Accepts(p, << "(" >>)
        THEN Bind(expr(Skip(p, << "(" >>)),
                  LAMBDA e : Bind(Expect(e.p, << ")" >>),
                                  LAMBDA x : Ok(e.node, x.p)))
        ELSE IF id.st = "ok" /\ id.name # <<>>
        THEN IF item = <<>> THEN Fail("err", WithTq(p, id.tq))
             ELSE Ok(Var(id.name, item[1].type), WithTq(p, id.tq))
        ELSE IF n.st # "ok" THEN Fail("err", WithTq(p, n.tq))
             ELSE Ok(Num(n.val), WithTq(p, n.tq))

\* unary = ("+" | "-" | "*" | "&") unary | primary
\* The "*" branch parses two operands and the "&" branch one; both then
\* reach todo!(), which panics.
unary(p) ==
    IF consume_reserve(p.tq, << "+" >>).st # "ok" THEN Fail("err", p)
    ELSE IF Accepts(p, << "+" >>) THEN unary(Skip(p, << "+" >>))
    ELSE IF Accepts(p, << "-" >>)
    THEN Bind(unary(Skip(p, << "-" >>)),
              LAMBDA u : Ok(Unary("Neg", u.node, u.node.type), u.p))
    ELSE IF Accepts(p, << "*" >>)
    THEN Bind(unary(Skip(p, << "*" >>)),
              LAMBDA u1 : Bind(unary(u1.p),
                               LAMBDA u2 : Fail("panic", u2.p)))
    ELSE IF Accepts(p, << "&" >>)
    THEN Bind(unary(Skip(p, << "&" >>)), LAMBDA u : Fail("panic", u.p))
    ELSE primary(p)

\* the node built by one round of the loop of mul
MulNode(op, node, rhs) ==
    IF op = << "*" >> THEN Binary("Mul", node, rhs, node.type)
    ELSE Binary("Div", node, rhs, node.type)

MulOps == << << "*" >>, << "/" >> >>

\* mul = unary ("*" unary | "/" unary)*
\* acc is <<>> before the first operand is parsed (`let mut node =
\* self.unary()?`) and << node >> inside the loop.
mul_loop(acc, p) ==
    IF acc # <<>> /\ consume_reserve(p.tq, << "*" >>).st # "ok"
    THEN Fail("err", p)
    ELSE IF acc # <<>> /\ FirstMatch(p, MulOps) = <<>> THEN Ok(acc[1], p)
    ELSE Bind(unary(IF acc = <<>> THEN p ELSE Skip(p, FirstMatch(p, MulOps))),
              LAMBDA u :
                mul_loop(IF acc = <<>> THEN << u.node >>
                         ELSE << MulNode(FirstMatch(p, MulOps), acc[1],
                                         u.node) >>,
                         u.p))

mul(p) == mul_loop(<<>>, p)

\* the node built by one round of the loop of add, before canonicalization
AddNode(op, node, rhs) ==
    IF op = << "+" >> THEN Binary("Add", node, rhs, node.type)
    ELSE Binary("Sub", node, rhs, node.type)

\* self.new_add(node)? / self.new_sub(node)?
Canonical(op, node, p) ==
    IF op = << "+" >> THEN new_add(node, p) ELSE new_sub(node, p)

AddOps == << << "+" >>, << "-" >> >>

\* add = mul ("+" mul | "-" mul)*
\* acc as in mul_loop.
add_loop(acc, p) ==
    IF acc # <<>> /\ consume_reserve(p.tq, << "+" >>).st # "ok"
    THEN Fail("err", p)
    ELSE IF acc # <<>> /\ FirstMatch(p, AddOps) = <<>> THEN Ok(acc[1], p)
    ELSE Bind(mul(IF acc = <<>> THEN p ELSE Skip(p, FirstMatch(p, AddOps))),
              LAMBDA m :
                IF acc = <<>> THEN add_loop(<< m.node >>, m.p)
                ELSE Bind(Canonical(FirstMatch(p, AddOps),
                                    AddNode(FirstMatch(p, AddOps), acc[1],
                                            m.node),
                                    m.p),
                          LAMBDA n : add_loop(<< n.node >>, n.p)))

add(p) == add_loop(<<>>, p)

RelationalOps == << << "<" >>, << "<", "=" >>, << ">" >>, << ">", "=" >> >>

\* the relational nodes with ">" and ">=" left as written
RelationalNode_unswapped(op, node, rhs) ==
    CASE op = << "<" >> -> Binary("Lt", node, rhs, I32)
      [] op = << "<", "=" >> -> Binary("Le", node, rhs, I32)
      [] op = << ">" >> -> Binary("Lt", node, rhs, I32)
      [] op = << ">", "=" >> -> Binary("Le", node, rhs, I32)

\* the node built by one round of the loop of relational
RelationalNode(op, node, rhs) ==
    CASE op = << "<" >> -> Binary("Lt", node, rhs, I32)
      [] op = << "<", "=" >> -> Binary("Le", node, rhs, I32)
      [] op = << ">" >> -> Binary("Lt", rhs, node, I32)
      [] op = << ">", "=" >> -> Binary("Le", rhs, node, I32)

\* relational = add ("<" add | "<=" add | ">" add | ">=" add)*
\* acc as in mul_loop.
relational_loop(acc, p) ==
    IF acc # <<>> /\ consume_reserve(p.tq, << "<" >>).st # "ok"
    THEN Fail("err", p)
    ELSE IF acc # <<>> /\ FirstMatch(p, RelationalOps) = <<>>
    THEN Ok(acc[1], p)
    ELSE Bind(add(IF acc = <<>> THEN p
                  ELSE Skip(p, FirstMatch(p, RelationalOps))),
              LAMBDA a :
                relational_loop(
                    IF acc = <<>> THEN << a.node >>
                    ELSE << RelationalNode(FirstMatch(p, RelationalOps),
                                           acc[1], a.node) >>,
                    a.p))

relational(p) == relational_loop(<<>>, p)

EqualityOps == << << "=", "=" >>, << "!", "=" >> >>

\* the node built by one round of the loop of equality
EqualityNode(op, node, rhs) ==
    IF op = << "=", "=" >> THEN Binary("Eq", node, rhs, I32)
    ELSE Binary("Ne", node, rhs, I32)

\* equality = relational ("==" relational | "!=" relational)*
\* acc as in mul_loop.
equality_loop(acc, p) ==
    IF acc # <<>> /\ consume_reserve(p.tq, << "=", "=" >>).st # "ok"
    THEN Fail("err", p)
    ELSE IF acc # <<>> /\ FirstMatch(p, EqualityOps) = <<>>
    THEN Ok(acc[1], p)
    ELSE Bind(relational(IF acc = <<>> THEN p
                         ELSE Skip(p, FirstMatch(p, EqualityOps))),
              LAMBDA r :
                equality_loop(
                    IF acc = <<>> THEN << r.node >>
                    ELSE << EqualityNode(FirstMatch(p, EqualityOps),
                                         acc[1], r.node) >>,
                    r.p))

equality(p) == equality_loop(<<>>, p)

\* assign = equality ("=" assign)?
assign(p) ==
    Bind(equality(p),
         LAMBDA e :
           IF consume_reserve(e.p.tq, << "=" >>).st # "ok"
           THEN Fail("err", e.p)
           ELSE IF ~Accepts(e.p, << "=" >>) THEN e
           ELSE Bind(assign(Skip(e.p, << "=" >>)),
                     LAMBDA a : Ok(Binary("Assign", e.node, a.node,
                                          e.node.type), a.p)))

\* expr followed by the token `close`, wrapped by Wrap: the shape
\* `let node = self.expr()?; self.token_queue.expect_reserve(close)?;`
\* When `optional` holds, a leading `close` stands for an absent expression
\* and gives `absent`.
ExprThen(p, close, optional, absent, Wrap(_)) ==
    IF optional /\ consume_reserve(p.tq, close).st # "ok" THEN Fail("err", p)
    ELSE IF optional /\ Accepts(p, close) THEN Ok(absent, Skip(p, close))
    ELSE Bind(expr(p),
              LAMBDA e : Bind(Expect(e.p, close),
                              LAMBDA x : Ok(Wrap(e.node), x.p)))

Same(node) == node

\* expr-stmt = expr? ";"
expr_stmt(p) == ExprThen(p, << ";" >>, TRUE, Block(<<>>), ExprStmt)

\* declarator = "*"* ident
RECURSIVE StarRun(_)
StarRun(tq) ==
    IF consume_reserve(tq, << "*" >>).st = "ok"
       /\ consume_reserve(tq, << "*" >>).val
    THEN [StarRun(Tail(tq)) EXCEPT !.num = @ + 1]
    ELSE [st |-> consume_reserve(tq, << "*" >>).st, num |-> 0, tq |-> tq]

RECURSIVE PtrTo(_, _)
PtrTo(base, num) == IF num = 0 THEN base ELSE Ptr(PtrTo(base, num - 1))

DeclaratorType(base_type, num) ==
    IF num > 0 THEN PtrTo(base_type, num) ELSE I32

declarator(p, base_type) ==
    LET stars == StarRun(p.tq)
        id == consume_ident(stars.tq)
        ty == DeclaratorType(base_type, stars.num)
    IN  IF stars.st # "ok" \/ id.st # "ok" \/ id.name = <<>>
        THEN Fail("err", WithTq(p, stars.tq))
        ELSE Ok(Var(id.name, ty), push_var(WithTq(p, id.tq), id.name, ty))

\* declspec = "int"
declspec(p) ==
    [st |-> Expect(p, KwInt).st, type |-> I32, node |-> None,
     p |-> Expect(p, KwInt).p]

\* the while loop of declaration: ns the nodes so far, head the flag
declaration_loop(p, base_type, ns, head) ==
    IF consume_reserve(p.tq, << ";" >>).st # "ok" THEN Fail("err", p)
    ELSE IF Accepts(p, << ";" >>) THEN Ok(Block(ns), Skip(p, << ";" >>))
    ELSE
    Bind(IF head THEN Ok(None, p) ELSE Expect(p, << "," >>),
         LAMBDA comma :
           Bind(declarator(comma.p, base_type),
                LAMBDA d :
                  IF consume_reserve(d.p.tq, << "=" >>).st # "ok"
                  THEN Fail("err", d.p)
                  ELSE IF ~Accepts(d.p, << "=" >>)
                  THEN declaration_loop(d.p, base_type, ns, FALSE)
                  ELSE Bind(expr(Skip(d.p, << "=" >>)),
                            LAMBDA e :
                              declaration_loop(e.p, base_type,
                                  Append(ns, ExprStmt(Binary("Assign", d.node,
                                                      e.node, base_type))),
                                  FALSE))))

\* declaration = declspec (declarator ("=" expr)?
\*               ("," declarator ("=" expr)?)*)? ";"
declaration(p) ==
    Bind(declspec(p), LAMBDA ds : declaration_loop(ds.p, ds.type, <<>>, TRUE))

\* compound-stmt = (declaration | stmt)* "}"
compound_stmt_loop(ns, p) ==
    IF consume_reserve(p.tq, << "}" >>).st # "ok" THEN Fail("err", p)
    ELSE IF Accepts(p, << "}" >>) THEN Ok(Block(ns), Skip(p, << "}" >>))
    ELSE Bind(IF is_reserve(p.tq, KwInt) THEN declaration(p) ELSE stmt(p),
              LAMBDA n : compound_stmt_loop(Append(ns, n.node), n.p))

compound_stmt(p) == compound_stmt_loop(<<>>, p)

\* "return" expr ";"
stmt_return(p) == ExprThen(p, << ";" >>, FALSE, None, Return)

\* "if" "(" expr ")" stmt ("else" stmt)?
stmt_if(p) ==
    Bind(Expect(p, << "(" >>),
         LAMBDA o :
           Bind(ExprThen(o.p, << ")" >>, FALSE, None, Same),
                LAMBDA cond :
                  Bind(stmt(cond.p),
                       LAMBDA then :
                         IF consume_reserve(then.p.tq, KwElse).st # "ok"
                         THEN Fail("err", then.p)
                         ELSE IF ~Accepts(then.p, KwElse)
                         THEN Ok(If(cond.node, then.node, None), then.p)
                         ELSE Bind(stmt(Skip(then.p, KwElse)),
                                   LAMBDA els :
                                     Ok(If(cond.node, then.node, els.node),
                                        els.p)))))

\* "for" "(" expr-stmt expr? ";" expr? ")" stmt
stmt_for(p) ==
    Bind(Expect(p, << "(" >>),
         LAMBDA o :
           Bind(expr_stmt(o.p),
                LAMBDA init :
                  Bind(ExprThen(init.p, << ";" >>, TRUE, None, Same),
                       LAMBDA cond :
                         Bind(ExprThen(cond.p, << ")" >>, TRUE, None, Same),
                              LAMBDA inc :
                                Bind(stmt(inc.p),
                                     LAMBDA then :
                                       Ok(For(init.node, cond.node, inc.node,
                                              then.node), then.p))))))

\* "while" "(" expr ")" stmt
stmt_while(p) ==
    Bind(Expect(p, << "(" >>),
         LAMBDA o :
           Bind(ExprThen(o.p, << ")" >>, FALSE, None, Same),
                LAMBDA cond :
                  Bind(stmt(cond.p),
                       LAMBDA then :
                         Ok(For(None, cond.node, None, then.node), then.p))))

\* stmt = "return" expr ";"
\*      | "if" "(" expr ")" stmt ("else" stmt)?
\*      | "for" "(" expr-stmt expr? ";" expr? ")" stmt
\*      | "while" "(" expr ")" stmt
\*      | "{" compound-stmt
\*      | expr-stmt
stmt(p) ==
    IF consume_reserve(p.tq, KwReturn).st # "ok" THEN Fail("err", p)
    ELSE IF Accepts(p, KwReturn) THEN stmt_return(Skip(p, KwReturn))
    ELSE IF Accepts(p, KwIf) THEN stmt_if(Skip(p, KwIf))
    ELSE IF Accepts(p, KwFor) THEN stmt_for(Skip(p, KwFor))
    ELSE IF Accepts(p, KwWhile) THEN stmt_while(Skip(p, KwWhile))
    ELSE IF Accepts(p, << "{" >>) THEN compound_stmt(Skip(p, << "{" >>))
    ELSE expr_stmt(p)

\* program = stmt*
\* the while loop of program, run to its end: [st, nodes, p]
RECURSIVE program_loop(_, _)
program_loop(ns, p) ==
    IF at_eof(p.tq).st # "ok" THEN [st |-> "panic", nodes |-> ns, p |-> p]
    ELSE IF at_eof(p.tq).val THEN [st |-> "ok", nodes |-> ns, p |-> p]
    ELSE LET r == stmt(p)
         IN  IF r.st # "ok" THEN [st |-> r.st, nodes |-> ns, p |-> r.p]
             ELSE program_loop(Append(ns, r.node), r.p)

program(p) == program_loop(<<>>, p)

(***************************************************************************)
(* The code generator.  Its recursion is unfolded on `work`, the sequence  *)
(* of pending operations: the head is the operation that runs next.        *)
(***************************************************************************)
\* A printed line: the format string of the println! and its argument.
Line(fmt, arg) == [fmt |-> fmt, arg |-> arg, reg |-> ""]

\* a line whose argument is a register name
RegLine(fmt, register) == [fmt |-> fmt, arg |-> 0, reg |-> register]

NoLine == Line("", 0)

Item(op, node, line) == [op |-> op, node |-> node, line |-> line]

GenStmtCall(node) == Item("gen_stmt", node, NoLine)
GenStmtRet(node) == Item("gen_stmt_ret", node, NoLine)
GenExprCall(node) == Item("gen_expr", node, NoLine)
GenAddrCall(node) == Item("gen_addr", node, NoLine)
PushCall == Item("push", None, NoLine)
PopCall(register) == Item("pop", None, RegLine("  pop %{}", register))
PrintCall(fmt, arg) == Item("println", None, Line(fmt, arg))
AssertCall == Item("assert", None, NoLine)

\* count() that returns the next number and forgets to store it
count_stuck(n) == [counter |-> n, c |-> n + 1]

\* count(): [counter |-> the field afterwards, c |-> the value returned]
count(n) == [counter |-> n + 1, c |-> n + 1]

BinaryKinds == {"Add", "Sub", "Mul", "Div", "Eq", "Ne", "Lt", "Le"}

\* the last match of gen_expr: the instruction(s) of a binary operator
BinaryCode(kind) ==
    LET print_eq(eq_str) == << PrintCall("  cmp %rdi, %rax", 0),
                               PrintCall(eq_str, 0),
                               PrintCall("  movzb %al, %rax", 0) >>
    IN  CASE kind = "Add" -> << PrintCall("  add %rdi, %rax", 0) >>
          [] kind = "Sub" -> << PrintCall("  sub %rdi, %rax", 0) >>
          [] kind = "Mul" -> << PrintCall("  imul %rdi, %rax", 0) >>
          [] kind = "Div" -> << PrintCall("  cqo", 0),
                                PrintCall("  idiv %rdi", 0) >>
          [] kind = "Eq" -> print_eq("  sete %al")
          [] kind = "Ne" -> print_eq("  setne %al")
          [] kind = "Lt" -> print_eq("  setl %al")
          [] kind = "Le" -> print_eq("  setle %al")

\* gen_expr whose Assign arm never pops the address it pushed
gen_expr_unbalanced(node) ==
    CASE node.kind = "None" -> [st |-> "ok", todo |-> <<>>]
      [] node.kind = "Num" ->
           [st |-> "ok", todo |-> << PrintCall("  mov ${}, %rax", node.val) >>]
      [] node.kind = "Neg" ->
           [st |-> "ok", todo |-> << GenExprCall(node.lhs),
                                     PrintCall("  neg %rax", 0) >>]
      [] node.kind = "Var" ->
           [st |-> "ok", todo |-> << GenAddrCall(node),
                                     PrintCall("  mov (%rax), %rax", 0) >>]
      [] node.kind = "Assign" ->
           [st |-> "ok", todo |-> << GenAddrCall(node.lhs), PushCall,
                                     GenExprCall(node.rhs),
                                     PrintCall(" mov %rax, (%rdi)", 0) >>]
      [] node.kind \in BinaryKinds ->
           [st |-> "ok", todo |-> << GenExprCall(node.rhs), PushCall,
                                     GenExprCall(node.lhs), PopCall("rdi") >>
                                  \o BinaryCode(node.kind)]
      [] OTHER -> [st |-> "panic", todo |-> <<>>]

\* gen_expr(Some(node)) / gen_expr(None): [st, todo], todo the operations
\* the call performs, in order.
gen_expr(node) ==
    CASE node.kind = "None" -> [st |-> "ok", todo |-> <<>>]
      [] node.kind = "Num" ->
           [st |-> "ok", todo |-> << PrintCall("  mov ${}, %rax", node.val) >>]
      [] node.kind = "Neg" ->
           [st |-> "ok", todo |-> << GenExprCall(node.lhs),
                                     PrintCall("  neg %rax", 0) >>]
      [] node.kind = "Var" ->
           [st |-> "ok", todo |-> << GenAddrCall(node),
                                     PrintCall("  mov (%rax), %rax", 0) >>]
      [] node.kind = "Assign" ->
           [st |-> "ok", todo |-> << GenAddrCall(node.lhs), PushCall,
                                     GenExprCall(node.rhs), PopCall("rdi"),
                                     PrintCall(" mov %rax, (%rdi)", 0) >>]
      [] node.kind \in BinaryKinds ->
           [st |-> "ok", todo |-> << GenExprCall(node.rhs), PushCall,
                                     GenExprCall(node.lhs), PopCall("rdi") >>
                                  \o BinaryCode(node.kind)]
      [] OTHER -> [st |-> "panic", todo |-> <<>>]

\* the for loop of the Block arm
RECURSIVE BlockCalls(_)
BlockCalls(ns) ==
    IF ns = <<>> THEN <<>>
    ELSE << GenStmtCall(Head(ns)) >> \o BlockCalls(Tail(ns))

\* gen_stmt(Some(node)) / gen_stmt(None), c being the number count() gave
\* to an If or a For.
gen_stmt(node, c) ==
    CASE node.kind = "None" -> [st |-> "ok", todo |-> <<>>]
      [] node.kind = "Return" ->
           [st |-> "ok", todo |-> << GenExprCall(node.lhs),
                                     PrintCall("  jmp .L.return", 0) >>]
      [] node.kind = "ExprStmt" ->
           [st |-> "ok", todo |-> << GenExprCall(node.expr) >>]
      [] node.kind = "If" ->
           [st |-> "ok", todo |-> << GenExprCall(node.cond),
                                     PrintCall("  cmp $0, %rax", 0),
                                     PrintCall("  je .L.else.{}", c),
                                     GenStmtCall(node.then),
                                     PrintCall("  jmp .L.end.{}", c),
                                     PrintCall(".L.else.{}:", c),
                                     GenStmtCall(node.els),
                                     PrintCall(".L.end.{}:", c) >>]
      [] node.kind = "For" ->
           [st |-> "ok", todo |-> << GenStmtCall(node.init),
                                     PrintCall(".L.begin.{}:", c) >>
                                  \o (IF node.cond # None
                                      THEN << GenExprCall(node.cond),
                                              PrintCall("  cmp $0, %rax", 0),
                                              PrintCall("  je .L.end.{}", c) >>
                                      ELSE <<>>)
                                  \o << GenStmtCall(node.then),
                                        GenExprCall(node.inc),
                                        PrintCall("  jmp .L.begin.{}", c),
                                        PrintCall(".L.end.{}:", c) >>]
      [] node.kind = "Block" ->
           [st |-> "ok", todo |-> BlockCalls(node.nodes)]
      [] OTHER -> [st |-> "panic", todo |-> <<>>]

\* the for loop of generate taken from the last statement to the first
RECURSIVE GenerateCalls_reversed(_)
GenerateCalls_reversed(ns) ==
    IF ns = <<>> THEN <<>>
    ELSE GenerateCalls_reversed(Tail(ns))
           \o << GenStmtCall(Head(ns)), AssertCall >>

\* the for loop of generate: each statement, then the assertion
RECURSIVE GenerateCalls(_)
GenerateCalls(ns) ==
    IF ns = <<>> THEN <<>>
    ELSE << GenStmtCall(Head(ns)), AssertCall >> \o GenerateCalls(Tail(ns))

Prologue(size) ==
    << Line("  .global main", 0), Line("main:", 0), Line("  push %rbp", 0),
       Line("  mov %rsp, %rbp", 0), Line("  sub ${}, %rsp", size) >>

Epilogue ==
    << Line(".L.return:", 0), Line("  mov %rbp, %rsp", 0),
       Line("  pop %rbp", 0), Line("  ret", 0) >>

(***************************************************************************)
(* The pipeline: tokenizer, Parser::new, Parser::program,                  *)
(* CodeGenerator::new, CodeGenerator::generate.                            *)
(***************************************************************************)
NoLocals == [n \in {} |-> VarTableItem(0, I32)]

ParserFresh ==
    /\ token_queue = <<>>
    /\ locals = NoLocals
    /\ locals_dequeue = <<>>
    /\ stack_size = 0
    /\ nodes = <<>>

GeneratorFresh ==
    /\ depth = 0
    /\ counter = 0
    /\ out = <<>>
    /\ work = <<>>

\* one iteration of the while loop of tokenizer
GenerateToken ==
    /\ pc = "tokenizer"
    /\ i < Len(s)
    /\ LET r == generate_token(s, i, tokens)
       IN  /\ i' = r.i
           /\ tokens' = r.q
           /\ pc' = IF r.st = "ok" THEN "tokenizer" ELSE "tokenizer_err"
    /\ UNCHANGED << s, args, parserVars, genVars >>

\* the loop ends: TkEof is pushed and Ok(rv) returned
TokenizerReturn ==
    /\ pc = "tokenizer"
    /\ i >= Len(s)
    /\ tokens' = Append(tokens, TkEof)
    /\ pc' = "tokenized"
    /\ UNCHANGED << s, i, args, parserVars, genVars >>

ParserNew ==
    /\ pc = "tokenized"
    /\ token_queue' = tokens
    /\ locals' = NoLocals
    /\ locals_dequeue' = <<>>
    /\ stack_size' = 0
    /\ nodes' = <<>>
    /\ pc' = "program"
    /\ UNCHANGED << lexVars, genVars >>

\* one iteration of the while loop of program: at_eof, then stmt
ProgramStep ==
    /\ pc = "program"
    /\ at_eof(token_queue) # [st |-> "ok", val |-> TRUE]
    /\ IF at_eof(token_queue).st = "panic"
       THEN /\ pc' = "program_panic"
            /\ UNCHANGED parserVars
       ELSE LET r == stmt(PState(token_queue, locals, locals_dequeue))
            IN  /\ token_queue' = r.p.tq
                /\ locals' = r.p.locals
                /\ locals_dequeue' = r.p.dq
                /\ nodes' = IF r.st = "ok" THEN Append(nodes, r.node) ELSE nodes
                /\ pc' = CASE r.st = "ok" -> "program"
                           [] r.st = "err" -> "program_err"
                           [] OTHER -> "program_panic"
                /\ UNCHANGED stack_size
    /\ UNCHANGED << lexVars, genVars >>

\* at_eof holds: program returns Ok(nodes)
ProgramReturn ==
    /\ pc = "program"
    /\ at_eof(token_queue) = [st |-> "ok", val |-> TRUE]
    /\ pc' = "parsed"
    /\ UNCHANGED << lexVars, parserVars, genVars >>

CodeGeneratorNew ==
    /\ pc = "parsed"
    /\ depth' = 0
    /\ counter' = 0
    /\ pc' = "generator"
    /\ UNCHANGED << lexVars, parserVars, out, work >>

\* generate up to its for loop: the offsets, then the prologue
GenerateBegin ==
    /\ pc = "generator"
    /\ LET a == assign_lvar_offset(locals, locals_dequeue)
       IN  /\ stack_size' = a.stack_size
           /\ locals' = a.locals
           /\ out' = out \o Prologue(a.stack_size)
    /\ work' = GenerateCalls(nodes)
    /\ pc' = "generate"
    /\ UNCHANGED << lexVars, token_queue, locals_dequeue, nodes, depth,
                    counter >>

GenStmt ==
    /\ pc = "generate"
    /\ work # <<>>
    /\ Head(work).op = "gen_stmt"
    /\ LET node == Head(work).node
           n == IF node.kind \in {"If", "For"} THEN count(counter)
                ELSE [counter |-> counter, c |-> 0]
           g == gen_stmt(node, n.c)
       IN  /\ counter' = n.counter
           /\ IF g.st = "ok"
              THEN /\ work' = g.todo \o << GenStmtRet(node) >> \o Tail(work)
                   /\ pc' = pc
              ELSE /\ work' = work
                   /\ pc' = "generate_panic"
    /\ UNCHANGED << lexVars, parserVars, depth, out >>

\* gen_stmt returns to its caller
GenStmtReturn ==
    /\ pc = "generate"
    /\ work # <<>>
    /\ Head(work).op = "gen_stmt_ret"
    /\ work' = Tail(work)
    /\ UNCHANGED << lexVars, parserVars, pc, depth, counter, out >>

GenExpr ==
    /\ pc = "generate"
    /\ work # <<>>
    /\ Head(work).op = "gen_expr"
    /\ LET g == gen_expr(Head(work).node)
       IN  IF g.st = "ok"
           THEN /\ work' = g.todo \o Tail(work)
                /\ pc' = pc
           ELSE /\ work' = work
                /\ pc' = "generate_panic"
    /\ UNCHANGED << lexVars, parserVars, depth, counter, out >>

\* gen_addr: a Var prints its lea, any other node prints nothing
GenAddr ==
    /\ pc = "generate"
    /\ work # <<>>
    /\ Head(work).op = "gen_addr"
    /\ LET node == Head(work).node
       IN  IF node.kind = "Var"
           THEN IF node.name \in DOMAIN locals
                THEN /\ out' = Append(out, Line("  lea -{}(%rbp), %rax",
                                                locals[node.name].offset))
                     /\ work' = Tail(work)
                     /\ pc' = pc
                ELSE /\ pc' = "generate_panic"
                     /\ UNCHANGED << out, work >>
           ELSE /\ out' = out
                /\ work' = Tail(work)
                /\ pc' = pc
    /\ UNCHANGED << lexVars, parserVars, depth, counter >>

Push ==
    /\ pc = "generate"
    /\ work # <<>>
    /\ Head(work).op = "push"
    /\ out' = Append(out, Line("  push %rax", 0))
    /\ depth' = depth + 1
    /\ work' = Tail(work)
    /\ UNCHANGED << lexVars, parserVars, pc, counter >>

\* depth is a usize kept modulo 2^64, usize::MAX being written -1.  At
\* depth 0 the subtraction panics in a build with overflow checks and wraps
\* in a build without them.
Pop ==
    /\ pc = "generate"
    /\ work # <<>>
    /\ Head(work).op = "pop"
    /\ out' = Append(out, Head(work).line)
    /\ \E build \in IF depth = 0 THEN {"checked", "wrapping"} ELSE {"any"} :
          IF build = "checked"
          THEN /\ pc' = "generate_panic"
               /\ UNCHANGED << depth, work >>
          ELSE /\ depth' = depth - 1
               /\ work' = Tail(work)
               /\ pc' = pc
    /\ UNCHANGED << lexVars, parserVars, counter >>

Println ==
    /\ pc = "generate"
    /\ work # <<>>
    /\ Head(work).op = "println"
    /\ out' = Append(out, Head(work).line)
    /\ work' = Tail(work)
    /\ UNCHANGED << lexVars, parserVars, pc, depth, counter >>

\* assert!(self.depth == 0) after a top-level statement
AssertDepth ==
    /\ pc = "generate"
    /\ work # <<>>
    /\ Head(work).op = "assert"
    /\ IF depth = 0
       THEN /\ work' = Tail(work)
            /\ pc' = pc
       ELSE /\ work' = work
            /\ pc' = "generate_panic"
    /\ UNCHANGED << lexVars, parserVars, depth, counter, out >>

\* after the for loop: .L.return and the epilogue
GenerateEnd ==
    /\ pc = "generate"
    /\ work = <<>>
    /\ out' = out \o Epilogue
    /\ pc' = "done"
    /\ UNCHANGED << lexVars, parserVars, depth, counter, work >>

(***************************************************************************)
(* main.rs, the command-line entry point.  It has a Token, a TokenQueue    *)
(* and a tokenizer of its own and calls nothing of the library.  Its queue *)
(* is kept in tokens, the lines it prints in out.                          *)
(***************************************************************************)
\* the while loop of main.rs's tokenizer from character k on: num is the
\* digit string collected so far, q the queue
RECURSIVE main_tokenizer_loop(_, _, _, _)
main_tokenizer_loop(str, k, num, q) ==
    IF k > Len(str)
    THEN IF Len(num) > 0
         THEN IF ParseI32(num).ok
              THEN [st |-> "ok",
                    q |-> q \o << TkNum(num, ParseI32(num).val), TkEof >>]
              ELSE [st |-> "err", q |-> q]
         ELSE [st |-> "ok", q |-> Append(q, TkEof)]
    ELSE IF str[k] = " " THEN main_tokenizer_loop(str, k + 1, num, q)
    ELSE IF is_digit(str[k])
    THEN main_tokenizer_loop(str, k + 1, Append(num, str[k]), q)
    ELSE IF str[k] \in {"+", "-"}
    THEN IF ParseI32(num).ok
         THEN main_tokenizer_loop(str, k + 1, <<>>,
                  q \o << TkNum(num, ParseI32(num).val),
                          TkReserved(<< str[k] >>) >>)
         ELSE [st |-> "err", q |-> q]
    ELSE [st |-> "err", q |-> q]

main_tokenizer(str) == main_tokenizer_loop(str, 1, <<>>, <<>>)

\* TokenQueue::comsume of main.rs: Err unless the front token is reserved
comsume(tq, op) ==
    IF tq # <<>> /\ Head(tq).tk = "TkReserved"
    THEN IF Head(tq).text = << op >>
         THEN [st |-> "ok", val |-> TRUE, tq |-> Tail(tq)]
         ELSE [st |-> "ok", val |-> FALSE, tq |-> tq]
    ELSE [st |-> "err", val |-> FALSE, tq |-> tq]

\* TokenQueue::except_num of main.rs: pops, then wants a TkNum
main_except_num(tq) ==
    IF tq = <<>> THEN [st |-> "err", val |-> 0, tq |-> tq]
    ELSE IF Head(tq).tk = "TkNum"
         THEN [st |-> "ok", val |-> Head(tq).val, tq |-> Tail(tq)]
         ELSE [st |-> "err", val |-> 0, tq |-> Tail(tq)]

\* main: the test of the number of arguments, then the header
MainArgs ==
    /\ pc = "main"
    /\ IF Len(args) # 1
       THEN /\ pc' = "main_err"
            /\ out' = out
       ELSE /\ pc' = "main_tokenizer"
            /\ out' = out \o << Line(".intel_syntax noprefix", 0),
                                Line(".global main", 0),
                                Line("  main:", 0) >>
    /\ UNCHANGED << lexVars, parserVars, depth, counter, work >>

\* let mut tokens = TokenQueue::tokenizer(arg)?
MainTokenizer ==
    /\ pc = "main_tokenizer"
    /\ LET r == main_tokenizer(args[1])
       IN  IF r.st = "ok"
           THEN tokens' = r.q /\ pc' = "main_first"
           ELSE tokens' = tokens /\ pc' = "main_err"
    /\ UNCHANGED << s, i, args, parserVars, genVars >>

\* println!("  mov rax, {}", tokens.except_num()?)
MainFirst ==
    /\ pc = "main_first"
    /\ LET n == main_except_num(tokens)
       IN  /\ tokens' = n.tq
           /\ IF n.st = "ok"
              THEN /\ out' = Append(out, Line("  mov rax, {}", n.val))
                   /\ pc' = "main_loop"
              ELSE /\ out' = out
                   /\ pc' = "main_err"
    /\ UNCHANGED << s, i, args, parserVars, depth, counter, work >>

\* One iteration of the while loop of main.  tokens[0] panics on an empty
\* queue; a front token that is reserved and neither + nor - lets the loop
\* go round without a change.
MainLoop ==
    /\ pc = "main_loop"
    /\ IF tokens = <<>>
       THEN /\ pc' = "main_panic"
            /\ UNCHANGED << tokens, out >>
       ELSE /\ Head(tokens) # TkEof
            /\ LET plus == comsume(tokens, "+")
                   minus == comsume(tokens, "-")
                   op == IF plus.val THEN plus ELSE minus
                   n == main_except_num(op.tq)
               IN  IF plus.st # "ok" \/ minus.st # "ok"
                   THEN /\ pc' = "main_err"
                        /\ UNCHANGED << tokens, out >>
                   ELSE IF ~op.val
                   THEN UNCHANGED << pc, tokens, out >>
                   ELSE /\ tokens' = n.tq
                        /\ IF n.st = "ok"
                           THEN /\ out' = Append(out,
                                      Line(IF plus.val THEN "  add rax, {}"
                                           ELSE "  sub rax, {}", n.val))
                                /\ pc' = pc
                           ELSE /\ out' = out
                                /\ pc' = "main_err"
    /\ UNCHANGED << s, i, args, parserVars, depth, counter, work >>

\* the loop ends at TkEof: ret is printed and main returns Ok(())
MainReturn ==
    /\ pc = "main_loop"
    /\ tokens # <<>>
    /\ Head(tokens) = TkEof
    /\ out' = Append(out, Line("  ret", 0))
    /\ pc' = "main_ok"
    /\ UNCHANGED << lexVars, parserVars, depth, counter, work >>

(***************************************************************************)
(* Inputs.                                                                 *)
(*                                                                         *)
(* Spec runs tokenizer, Parser::new and program on a source text, a        *)
(* concatenation of at most MaxPieces fragments.                           *)
(*                                                                         *)
(* SpecParser starts from a token queue as the tokenizer returns one       *)
(* (tokens, then one TkEof) and runs Parser::new, program and generate.    *)
(* Its queues also hold the tokens the grammar of parser.rs consumes       *)
(* ("int", ",", "&", "*" as a declarator), in three families:              *)
(*   statements    { int *p, a;  <at most MaxStmtPieces fragments>  }      *)
(*   expressions   { int *p, a;  <at most MaxExprPieces tokens> ; }        *)
(*   declarations  { int <at most MaxDecls declarators> ; }                *)
(***************************************************************************)
Pieces ==
    { << "1" >>, << "2", "3" >>, << "+" >>, << ">" >>, << "<" >>, << "=" >>,
      << ";" >>, << " " >>, << "a" >>, << "(" >>, << ")" >>, << "@" >>,
      << "&" >>, KwIf, KwInt }

RECURSIVE Concats(_, _)
Concats(ps, n) ==
    IF n = 0 THEN { <<>> }
    ELSE LET shorter == Concats(ps, n - 1)
         IN  shorter \cup { x \o y : x \in shorter, y \in ps }

Sources == Concats(Pieces, MaxPieces)

R(c) == TkReserved(<< c >>)
N1 == TkNum(<< "1" >>, 1)
N2 == TkNum(<< "2" >>, 2)
IdA == TkIdent(<< "a" >>)
IdB == TkIdent(<< "b" >>)
IdP == TkIdent(<< "p" >>)
Le == TkReserved(<< "<", "=" >>)
Ge == TkReserved(<< ">", "=" >>)
EqEq == TkReserved(<< "=", "=" >>)
NotEq == TkReserved(<< "!", "=" >>)

\* { int *p, a;
Prelude ==
    << R("{"), TkReserved(KwInt), R("*"), IdP, R(","), IdA, R(";") >>

StmtPieces ==
    { << TkReserved(KwIf), R("("), IdA, R(")") >>,
      << TkReserved(KwElse) >>,
      << TkReserved(KwFor), R("("), R(";"), R(";"), R(")") >>,
      << TkReserved(KwFor), R("("), IdA, R("="), N1, R(";"), IdA, R("<"), N2,
         R(";"), IdA, R("="), IdA, R("+"), N1, R(")") >>,
      << TkReserved(KwWhile), R("("), N1, R(")"), R(";") >>,
      << TkReserved(KwReturn), N1, R("+"), IdA, R(";") >>,
      << R("{") >>,
      << R("}") >>,
      << TkReserved(KwInt), IdB, R(";") >>,
      << IdB, R("="), IdA, R("+"), N2, R(";") >> }

ExprPieces ==
    { << N1 >>, << IdP >>, << IdA >>, << R("+") >>, << R("-") >>,
      << R("<") >>, << R(">") >>, << Le >>, << Ge >>, << EqEq >>, << NotEq >> }

\* operands, the two pointer operators, assignment and an opening brace
RefPieces ==
    { << N1 >>, << IdA >>, << IdP >>, << R("*") >>, << R("&") >>,
      << R("=") >>, << R("{") >> }

\* the declarators: a, *a, b, *b, c, *c
DeclPieces ==
    { stars \o << TkIdent(<< n >>) >> :
        stars \in { <<>>, << R("*") >> }, n \in {"a", "b", "c"} }

\* declarators separated by commas
RECURSIVE DeclLists(_)
DeclLists(n) ==
    IF n = 0 THEN { <<>> }
    ELSE LET shorter == DeclLists(n - 1)
         IN  shorter \cup DeclPieces
               \cup { x \o << R(",") >> \o y :
                        x \in shorter \ { <<>> }, y \in DeclPieces }

StmtInputs ==
    { Prelude \o x \o << R("}"), TkEof >> :
        x \in Concats(StmtPieces, MaxStmtPieces) }

ExprInputs ==
    { Prelude \o x \o << R(";"), R("}"), TkEof >> :
        x \in Concats(ExprPieces, MaxExprPieces) }

RefInputs ==
    { Prelude \o x \o << R(";"), R("}"), TkEof >> :
        x \in Concats(RefPieces, MaxRefPieces) }

DeclInputs ==
    { << R("{"), TkReserved(KwInt) >> \o x \o << R(";"), R("}"), TkEof >> :
        x \in DeclLists(MaxDecls) }

Init ==
    /\ pc = "tokenizer"
    /\ s \in Sources
    /\ i = 0
    /\ tokens = <<>>
    /\ args = <<>>
    /\ ParserFresh
    /\ GeneratorFresh

\* tokenizer has returned Ok(tokens)
InitParser ==
    /\ pc = "tokenized"
    /\ s = <<>>
    /\ i = 0
    /\ \/ tokens \in StmtInputs
       \/ tokens \in ExprInputs
       \/ tokens \in RefInputs
       \/ tokens \in DeclInputs
    /\ args = <<>>
    /\ ParserFresh
    /\ GeneratorFresh

Generate ==
    \/ GenerateBegin
    \/ GenStmt
    \/ GenStmtReturn
    \/ GenExpr
    \/ GenAddr
    \/ Push
    \/ Pop
    \/ Println
    \/ AssertDepth
    \/ GenerateEnd

Parse ==
    \/ ParserNew
    \/ ProgramStep
    \/ ProgramReturn

Next ==
    \/ GenerateToken
    \/ TokenizerReturn
    \/ Parse

NextParser ==
    \/ Parse
    \/ CodeGeneratorNew
    \/ Generate

Spec == Init /\ [][Next]_vars

\* tokenizer alone.  It is one sequential loop, which runs until it
\* returns: a step that can be taken is taken.
NextTokenizer ==
    \/ GenerateToken
    \/ TokenizerReturn

\* source texts of at most MaxTokenizerPieces fragments: digits, operators
\* of one and of two characters, a space, a letter and a character that no
\* token begins with
TokenizerPieces ==
    { << "1" >>, << "2", "3" >>, << "+" >>, << "=" >>, << ">" >>, << " " >>,
      << "a" >>, << "@" >> }

InitTokenizer ==
    /\ pc = "tokenizer"
    /\ s \in Concats(TokenizerPieces, MaxTokenizerPieces)
    /\ i = 0
    /\ tokens = <<>>
    /\ args = <<>>
    /\ ParserFresh
    /\ GeneratorFresh

SpecTokenizer ==
    InitTokenizer /\ [][NextTokenizer]_vars /\ WF_vars(NextTokenizer)

SpecParser == InitParser /\ [][NextParser]_vars

\* the command lines: no argument, or one text of at most MaxMainPieces
\* fragments followed by at most MaxArgs - 1 further arguments
MainPieces ==
    { << "1" >>, << "2" >>, << " " >>, << "+" >>, << "-" >>, << ";" >> }

ArgLists ==
    { <<>> } \cup { << x >> \o more :
                      x \in Concats(MainPieces, MaxMainPieces),
                      more \in Concats({ << << "1" >> >>, << << "+" >> >> },
                                       MaxArgs - 1) }

InitMain ==
    /\ pc = "main"
    /\ args \in ArgLists
    /\ s = <<>>
    /\ i = 0
    /\ tokens = <<>>
    /\ ParserFresh
    /\ GeneratorFresh

NextMain ==
    \/ MainArgs
    \/ MainTokenizer
    \/ MainFirst
    \/ MainLoop
    \/ MainReturn

SpecMain == InitMain /\ [][NextMain]_vars

(***************************************************************************)
(* Properties.                                                             *)
(***************************************************************************)
\* tokenizer has returned Ok(tokens)
Tokenized == pc \notin {"tokenizer", "tokenizer_err"}

\* Parser::new has been called on tokens
InParser == pc \in {"program", "program_err", "program_panic", "parsed"}

IsEof(tok) == tok.tk = "TkEof"

\* C1: whenever tokenizer returns Ok, the queue is not empty, its last token
\* is TkEof, no other token is TkEof, and every other token carries a
\* non-empty text.
C1_SingleTrailingEof ==
    Tokenized =>
        /\ tokens # <<>>
        /\ IsEof(tokens[Len(tokens)])
        /\ \A k \in 1 .. Len(tokens) - 1 :
              /\ ~IsEof(tokens[k])
              /\ tokens[k].text # <<>>

\* a queue with a number, a reserved word and an identifier before TkEof
C1_Witness ==
    /\ pc = "tokenized"
    /\ Len(tokens) = 4
    /\ { tokens[k].tk : k \in 1 .. 4 }
         = {"TkNum", "TkReserved", "TkIdent", "TkEof"}

\* C2: while Parser::program runs and after it returns, also with an error,
\* the TkEof token is still the last token of token_queue.
C2_EofNeverPopped ==
    InParser =>
        /\ token_queue # <<>>
        /\ IsEof(token_queue[Len(token_queue)])

\* Parser::program has returned Ok(nodes)
ParsedOk == pc \in {"parsed", "generator", "generate", "generate_panic", "done"}

\* generate has run assign_lvar_offset
OffsetsAssigned == pc \in {"generate", "generate_panic", "done"}

\* the parser has not yet taken a token of the queue it was given
BeforeParse == pc = "tokenized" \/ (pc = "program" /\ token_queue = tokens)

\* the nodes directly below a node, in field order
ChildSeq(node) ==
    CASE node.kind \in BinaryKinds \cup {"Assign"} -> << node.lhs, node.rhs >>
      [] node.kind \in {"Neg", "Addr", "Deref", "Return"} -> << node.lhs >>
      [] node.kind = "ExprStmt" -> << node.expr >>
      [] node.kind = "If" -> << node.cond, node.then, node.els >>
      [] node.kind = "For" ->
           << node.init, node.cond, node.inc, node.then >>
      [] node.kind = "Block" -> node.nodes
      [] OTHER -> <<>>

\* every node of the trees in ns
RECURSIVE SubNodes(_)
SubNodes(ns) ==
    IF ns = <<>> THEN {}
    ELSE {Head(ns)} \cup SubNodes(ChildSeq(Head(ns)) \o Tail(ns))

\* the number of If and For nodes in the trees in ns
RECURSIVE Structures(_)
Structures(ns) ==
    IF ns = <<>> THEN 0
    ELSE (IF Head(ns).kind \in {"If", "For"} THEN 1 ELSE 0)
           + Structures(ChildSeq(Head(ns)) \o Tail(ns))

VarNames(ns) == { n.name : n \in { m \in SubNodes(ns) : m.kind = "Var" } }

\* C3: for every statement, nested or not, depth is 0 when gen_stmt is
\* called and when it returns; pop never runs at depth 0; the assertion of
\* generate after a top-level statement never fails.
C3_DepthZeroAroundStmt ==
    /\ pc # "generate_panic"
    /\ (pc = "generate" /\ work # <<>>) =>
          /\ Head(work).op \in {"gen_stmt", "gen_stmt_ret", "assert"}
                => depth = 0
          /\ Head(work).op = "pop" => depth > 0

\* gen_stmt returns from a statement nested in an If or a For after a push
C3_Witness ==
    /\ pc = "generate"
    /\ work # <<>>
    /\ Head(work).op = "gen_stmt_ret"
    /\ Head(work).node.kind = "ExprStmt"
    /\ \E k \in 2 .. Len(work) :
          /\ work[k].op = "gen_stmt_ret"
          /\ work[k].node.kind \in {"If", "For"}
    /\ \E k \in 1 .. Len(out) : out[k].fmt = "  push %rax"

LabelDefs == {".L.else.{}:", ".L.end.{}:", ".L.begin.{}:"}

NumberedJumps ==
    {"  je .L.else.{}", "  jmp .L.end.{}", "  je .L.end.{}",
     "  jmp .L.begin.{}"}

\* the label definition a jump needs
JumpTarget(fmt) ==
    CASE fmt = "  je .L.else.{}" -> ".L.else.{}:"
      [] fmt \in {"  jmp .L.end.{}", "  je .L.end.{}"} -> ".L.end.{}:"
      [] fmt = "  jmp .L.begin.{}" -> ".L.begin.{}:"
      [] fmt = "  jmp .L.return" -> ".L.return:"

\* the positions of out that mention a label number
Numbered == { k \in 1 .. Len(out) : out[k].fmt \in LabelDefs \cup NumberedJumps }

\* the lines of one number, in the order of emission
RECURSIVE LinesOf(_, _)
LinesOf(n, k) ==
    IF k > Len(out) THEN <<>>
    ELSE (IF k \in Numbered /\ out[k].arg = n THEN << out[k].fmt >> ELSE <<>>)
           \o LinesOf(n, k + 1)

\* what one If and one For print with their number
StructureShapes ==
    { << "  je .L.else.{}", "  jmp .L.end.{}", ".L.else.{}:", ".L.end.{}:" >>,
      << ".L.begin.{}:", "  je .L.end.{}", "  jmp .L.begin.{}",
         ".L.end.{}:" >>,
      << ".L.begin.{}:", "  jmp .L.begin.{}", ".L.end.{}:" >> }

\* C4: in one generate, label numbers start at 1 and each structure takes
\* the next number, larger than all earlier ones; no label definition is
\* printed twice; when generate is done every If and For has taken exactly
\* one number, used it for all of its labels and jumps, and every jump has
\* its label defined.
C4_LabelNumbers ==
    OffsetsAssigned =>
        LET numbered == Numbered
            defs == { k \in numbered : out[k].fmt \in LabelDefs }
        IN
        /\ \A k \in numbered :
              /\ out[k].arg \in 1 .. counter
              /\ \A n \in 1 .. out[k].arg - 1 :
                    \E j \in numbered : j < k /\ out[j].arg = n
        /\ \A j, k \in defs : j < k => out[j] # out[k]
        /\ pc = "done" =>
              /\ counter = Structures(nodes)
              /\ \A n \in 1 .. counter : LinesOf(n, 1) \in StructureShapes
              /\ \A k \in 1 .. Len(out) :
                    out[k].fmt \in NumberedJumps \cup {"  jmp .L.return"} =>
                       \E j \in 1 .. Len(out) :
                          /\ out[j].fmt = JumpTarget(out[k].fmt)
                          /\ out[j].arg = out[k].arg

\* three structures, one after and one inside another, an If and a For
C4_Witness ==
    /\ pc = "done"
    /\ counter = 3
    /\ \E k \in 1 .. Len(out) : out[k].fmt = ".L.else.{}:"
    /\ \E k \in 1 .. Len(out) : out[k].fmt = ".L.begin.{}:"

IsIdent(tok) == tok.tk = "TkIdent"

IsWord(tok, word) == tok.tk = "TkReserved" /\ tok.text = word

\* position k of toks is where a declarator names its variable: after
\* "int" or ",", and after the "*"s that follow them
RECURSIVE IsDeclPos(_, _)
IsDeclPos(toks, k) ==
    /\ k > 1
    /\ \/ IsWord(toks[k - 1], KwInt)
       \/ IsWord(toks[k - 1], << "," >>)
       \/ IsWord(toks[k - 1], << "*" >>) /\ IsDeclPos(toks, k - 1)

\* One pass over the first k tokens: order, the distinct names they
\* declare, in declaration order; undeclared, whether an identifier stands
\* in an expression with no declaration of it before.
RECURSIVE Scan(_, _)
Scan(toks, k) ==
    IF k = 0 THEN [order |-> <<>>, undeclared |-> FALSE]
    ELSE LET before == Scan(toks, k - 1)
             known == \E j \in 1 .. Len(before.order) :
                         before.order[j] = toks[k].text
         IN  IF ~IsIdent(toks[k]) \/ (known /\ ~before.undeclared)
             THEN before
             ELSE IF IsDeclPos(toks, k)
             THEN IF known THEN before
                  ELSE [before EXCEPT !.order = Append(@, toks[k].text)]
             ELSE [before EXCEPT !.undeclared = @ \/ ~known]

Declared == Scan(tokens, Len(tokens)).order

C6_StackSize ==
    OffsetsAssigned =>
        LET k == Len(Declared)
        IN
        /\ stack_size % 16 = 0
        /\ stack_size >= 8 * k
        /\ stack_size - 16 < 8 * k
        /\ k = 0 => stack_size = 0
        /\ k \in {1, 2} => stack_size = 16
        /\ Len(out) >= 5
        /\ out[5] = Line("  sub ${}, %rsp", stack_size)

\* one declared name: 8 bytes rounded up to 16
C6_Witness ==
    /\ pc = "done"
    /\ Len(Declared) = 1
    /\ stack_size = 16
    /\ out[5].arg = 16

UsedBeforeDeclared(toks) == Scan(toks, Len(toks)).undeclared

\* C7: when program returns Ok every Var node names a key of locals; a
\* queue that uses an identifier before any declaration of it never makes
\* program return Ok, and no Var node is built for it.
C7_VarsAreDeclared ==
    /\ VarNames(nodes) \subseteq DOMAIN locals
    /\ ParsedOk => ~UsedBeforeDeclared(tokens)

\* a parse that returned Ok with a Var node for a name declared in a block
C7_Witness ==
    /\ pc = "parsed"
    /\ << "b" >> \in VarNames(nodes)
    /\ << "a" >> \in VarNames(nodes)

\* tokens is a queue of the expression family
IsExprInput ==
    /\ Len(tokens) >= Len(Prelude) + 3
    /\ SubSeq(tokens, 1, Len(Prelude)) = Prelude
    /\ SubSeq(tokens, Len(tokens) - 2, Len(tokens))
         = << R(";"), R("}"), TkEof >>
    /\ \A k \in Len(Prelude) + 1 .. Len(tokens) - 3 :
          << tokens[k] >> \in ExprPieces

\* the tokens between "{ int *p, a;" and "; }" of an expression queue
Body == SubSeq(tokens, Len(Prelude) + 1, Len(tokens) - 3)

\* the expression parsed from the body of an expression queue
BodyExpr(ns) == ns[1].nodes[Len(ns[1].nodes)].expr

\* the node of a one-token operand
OperandNode(tok) ==
    CASE tok = N1 -> Num(1)
      [] tok = IdA -> Var(<< "a" >>, I32)
      [] tok = IdP -> Var(<< "p" >>, Ptr(I32))

\* C8: p + n and n + p both parse to Add(p, Mul(n, Num 8)) of pointer type.
C8_PointerAddSymmetric ==
    \A n \in {N1, IdA} :
        (/\ IsExprInput
         /\ Body \in { << IdP, R("+"), n >>, << n, R("+"), IdP >> }
         /\ ~BeforeParse)
        => /\ ParsedOk \/ pc = "program"
           /\ BodyExpr(nodes)
                = Binary("Add", OperandNode(IdP),
                         Binary("Mul", OperandNode(n), Num(8), I32),
                         Ptr(I32))

\* C9: pointer + pointer and int - pointer end the parse with an error and
\* no node; every other pair of operand types is accepted by + and -.
C9_PointerOperandErrors ==
    \A x, y \in {N1, IdA, IdP} : \A op \in {"+", "-"} :
        (/\ IsExprInput
         /\ Body = << x, R(op), y >>
         /\ ~BeforeParse)
        => IF \/ op = "+" /\ x = IdP /\ y = IdP
              \/ op = "-" /\ x # IdP /\ y = IdP
           THEN pc = "program_err" /\ nodes = <<>>
           ELSE /\ ParsedOk \/ pc = "program"
                /\ BodyExpr(nodes).kind \in {"Add", "Sub", "Div"}

\* the parse of p + p has ended
C9_Witness ==
    /\ IsExprInput
    /\ Body = << IdP, R("+"), IdP >>
    /\ pc = "program_err"

RelationalTokens == {R("<"), R(">"), Le, Ge}

ComparisonTokens == RelationalTokens \cup {EqEq, NotEq}

Mirror(tok) == IF tok = R(">") THEN R("<") ELSE Le

\* the positions where Body is a > b or a >= b, a and b without comparison
GreaterAt ==
    { k \in 2 .. Len(Body) - 1 :
        /\ Body[k] \in {R(">"), Ge}
        /\ \A j \in 1 .. Len(Body) : j # k => Body[j] \notin ComparisonTokens }

\* Parser::program on an expression queue with the given body
ParseBody(body) ==
    program(PState(Prelude \o body \o << R(";"), R("}"), TkEof >>,
                   NoLocals, <<>>))

\* C10: a > b parses as b < a does, to Lt with b on the left, and a >= b as
\* b <= a does, to Le with b on the left; no node is a Gt or a Ge, and every
\* Eq, Ne, Lt and Le node has type int.
C10_GreaterIsMirroredLess ==
    /\ \A n \in SubNodes(nodes) :
          /\ n.kind \notin {"Gt", "Ge"}
          /\ n.kind \in {"Eq", "Ne", "Lt", "Le"} => n.type = I32
    /\ (IsExprInput /\ ~BeforeParse) =>
          \A k \in GreaterAt :
             LET a == SubSeq(Body, 1, k - 1)
                 b == SubSeq(Body, k + 1, Len(Body))
                 mirrored == ParseBody(b \o << Mirror(Body[k]) >> \o a)
             IN  IF ParsedOk \/ pc = "program"
                 THEN /\ mirrored.st = "ok"
                      /\ mirrored.nodes = nodes
                      /\ BodyExpr(nodes)
                           = Binary(IF Body[k] = Ge THEN "Le" ELSE "Lt",
                                    BodyExpr(ParseBody(b).nodes),
                                    BodyExpr(ParseBody(a).nodes), I32)
                 ELSE mirrored.st # "ok"

\* p > 1 and a >= 1 have been parsed
C10_Witness ==
    /\ pc = "parsed"
    /\ IsExprInput
    /\ GreaterAt # {}
    /\ Body[1] # Body[3]

\* the maximal run of identifier characters of str that starts at k
RECURSIVE WordAt(_, _)
WordAt(str, k) ==
    IF k > Len(str) \/ ~is_alpha_num(str[k]) THEN <<>>
    ELSE << str[k] >> \o WordAt(str, k + 1)

\* the maximal identifier runs of str: they start with a letter or an
\* underscore that no identifier character precedes
Words(str) ==
    { WordAt(str, k) :
        k \in { j \in 1 .. Len(str) :
                  is_alpha(str[j]) /\ (j = 1 \/ ~is_alpha_num(str[j - 1])) } }

Keywords == {KwReturn, KwIf, KwElse, KwFor, KwWhile, KwInt}

TokenSet == { tokens[k] : k \in 1 .. Len(tokens) }

\* C11: every maximal identifier run w of the input becomes a reserved
\* token with text w when w is one of return, if, else, for, while, int, and
\* an identifier token with name w otherwise.
C11_KeywordsAreReserved ==
    Tokenized =>
        \A w \in Words(s) :
            IF w \in Keywords
            THEN TkReserved(w) \in TokenSet /\ TkIdent(w) \notin TokenSet
            ELSE TkIdent(w) \in TokenSet /\ TkReserved(w) \notin TokenSet

ClaimedDoubles ==
    { << "=", "=" >>, << "!", "=" >>, << "<", "=" >>, << ">", "=" >> }

ClaimedSingles ==
    {"+", "-", "*", "/", "(", ")", "<", ">", ";", "=", "{", "}", "&"}

\* C12: a call of generate_token whose scan position, after the spaces,
\* does not start a number emits one two-character reserved token when the
\* next two characters are ==, !=, <= or >=, and otherwise one reserved
\* token with the next character when that is one of + - * / ( ) < > ; = {
\* } &; it does not fail on any of them.
C12_PunctuatorTokens ==
    [][ (pc = "tokenizer" /\ i < Len(s)) =>
          LET j == skip_whitespace(s, i)
          IN  (j < Len(s) /\ ~is_digit(s[j + 1])) =>
                 IF j + 2 <= Len(s) /\ << s[j + 1], s[j + 2] >> \in ClaimedDoubles
                 THEN /\ tokens' = Append(tokens,
                                          TkReserved(<< s[j + 1], s[j + 2] >>))
                      /\ i' = j + 2
                      /\ pc' = "tokenizer"
                 ELSE s[j + 1] \in ClaimedSingles =>
                         /\ tokens' = Append(tokens, TkReserved(<< s[j + 1] >>))
                         /\ i' = j + 1
                         /\ pc' = "tokenizer" ]_vars

\* str with n spaces put in after its first b characters
InsertSpaces(str, b, n) ==
    SubSeq(str, 1, b) \o [k \in 1 .. n |-> " "] \o SubSeq(str, b + 1, Len(str))

\* the positions of str where a call of generate_token ends, from j on
RECURSIVE TokenEnds(_, _)
TokenEnds(str, j) ==
    IF j >= Len(str) THEN {}
    ELSE LET r == generate_token(str, j, <<>>)
         IN  IF r.st # "ok" THEN {} ELSE {r.i} \cup TokenEnds(str, r.i)

\* the places around the tokens of str: before the first, after each
Gaps(str) == {0} \cup TokenEnds(str, 0)

\* C14: when tokenizer accepts a text, the text with one or two spaces put
\* in before the first token, between two tokens or after the last one is
\* accepted too and gives the same queue.
C14_SpacesAreIgnored ==
    pc = "tokenized" =>
        \A b \in Gaps(s) : \A n \in 1 .. 2 :
            tokenizer(InsertSpaces(s, b, n)) = [st |-> "ok", q |-> tokens]

\* an accepted text of two tokens with a space between them
C14_Witness ==
    /\ pc = "tokenized"
    /\ Len(tokens) = 3
    /\ Len(s) = 3
    /\ s[2] = " "


\* the maximal runs of decimal digits of str from position k on, in order
RECURSIVE DigitRuns(_, _)
DigitRuns(str, k) ==
    IF k > Len(str) THEN <<>>
    ELSE IF is_digit(str[k])
    THEN LET e == DigitRunEnd(str, k - 1)
         IN  << SubSeq(str, k, e) >> \o DigitRuns(str, e + 1)
    ELSE DigitRuns(str, k + 1)

\* the raw texts of the Number tokens of a queue, in order
NumberRaws(q) == SelectSeq(q, LAMBDA t : t.tk = "TkNum")

\* C13: every maximal digit run of the source becomes exactly one Number
\* token with the run as raw text and its base-10 value, and runs separated
\* by spaces are never merged; stated for the tokenizer of main.rs, whose
\* queue is complete when main is about to read the first number.
C13_DigitRunsAreNumbers ==
    pc = "main_first" =>
        LET runs == DigitRuns(args[1], 1)
            nums == NumberRaws(tokens)
        IN  /\ Len(nums) = Len(runs)
            /\ \A k \in 1 .. Len(runs) :
                   /\ nums[k].text = runs[k]
                   /\ nums[k].val = ParseI32(runs[k]).val


\* the queue is "{ int *p, a;", then body, then "; }" and the end marker
HasBody(body) == tokens = Prelude \o body \o << R(";"), R("}"), TkEof >>

\* the type of *e: the base type of a pointer e, int otherwise
DerefType(e) == IF e.type.t = "Ptr" THEN e.type.base ELSE I32

\* C15: "* e" consumes the one operand e and parses to a Deref node of e
\* with the base type of e (int when e is no pointer), "& e" parses to an
\* Addr node of e of type pointer to type(e); the parser returns the node
\* and goes on, so that the statement "* e ;" or "& e ;" is accepted.
C15_PointerOperatorsParse ==
    \A e \in {N1, IdA, IdP} :
        /\ (HasBody(<< R("*"), e >>) /\ ~BeforeParse) =>
               /\ ParsedOk
               /\ BodyExpr(nodes)
                    = Unary("Deref", OperandNode(e), DerefType(OperandNode(e)))
        /\ (HasBody(<< R("&"), e >>) /\ ~BeforeParse) =>
               /\ ParsedOk
               /\ BodyExpr(nodes)
                    = Unary("Addr", OperandNode(e), Ptr(OperandNode(e).type))


\* the statements whose gen_stmt call is directly followed by the assertion
\* of generate's loop, in the order in which they are pending: the
\* top-level statements that generate has still to finish
RECURSIVE TopLevelPending(_)
TopLevelPending(w) ==
    IF Len(w) < 2 THEN <<>>
    ELSE (IF w[1].op \in {"gen_stmt", "gen_stmt_ret"} /\ w[2].op = "assert"
          THEN << w[1].node >> ELSE <<>>) \o TopLevelPending(Tail(w))

\* the positions of out that hold the line fmt
LinesAt(fmt) == { k \in 1 .. Len(out) : out[k].fmt = fmt }

\* C16: generate finalizes the offsets before it prints a line; the output
\* begins with .global main, main: and the three prologue lines that end
\* with the sub of the frame size; the top-level statements are generated in
\* the order of the statement list; .L.return: is printed exactly once, at
\* the end, followed by mov %rbp, %rsp, pop %rbp and ret, and every
\* jmp .L.return precedes it.
C16_GenerateOrder ==
    LET n == Len(out)
        pending == TopLevelPending(work)
    IN  /\ ~OffsetsAssigned => out = <<>>
        /\ out # <<>> =>
              /\ \A k \in 1 .. Len(locals_dequeue) :
                    locals[locals_dequeue[k]].offset = 8 * k
              /\ n >= 5
              /\ SubSeq(out, 1, 5)
                   = << Line("  .global main", 0), Line("main:", 0),
                        Line("  push %rbp", 0), Line("  mov %rsp, %rbp", 0),
                        Line("  sub ${}, %rsp", stack_size) >>
        /\ pc = "generate" =>
              /\ LinesAt(".L.return:") = {}
              /\ Len(pending) <= Len(nodes)
              /\ pending = SubSeq(nodes, Len(nodes) - Len(pending) + 1,
                                  Len(nodes))
        /\ pc = "done" =>
              /\ n >= 9
              /\ SubSeq(out, n - 3, n)
                   = << Line(".L.return:", 0), Line("  mov %rbp, %rsp", 0),
                        Line("  pop %rbp", 0), Line("  ret", 0) >>
              /\ LinesAt(".L.return:") = {n - 3}
              /\ \A k \in LinesAt("  jmp .L.return") : k < n - 3
              /\ work = <<>>

\* generate is done with three different top-level statements, one of them
\* a Return
C16_Witness ==
    /\ pc = "done"
    /\ Len(nodes) = 3
    /\ nodes[1] # nodes[3]
    /\ nodes[2].kind = "Return"
    /\ LinesAt("  jmp .L.return") # {}


\* the library's tokenizer and Parser::program both accept the text
IsProgram(str) ==
    LET lexed == tokenizer(str)
    IN  /\ lexed.st = "ok"
        /\ program(PState(lexed.q, NoLocals, <<>>)).st = "ok"

\* C17: main returns an error unless it has exactly one argument; with one
\* argument it returns Ok exactly when the argument is a program of the
\* grammar, and an error otherwise.
C17_MainAcceptsPrograms ==
    /\ pc = "main_ok" => Len(args) = 1 /\ IsProgram(args[1])
    /\ pc \in {"main_err", "main_panic"} =>
           ~(Len(args) = 1 /\ IsProgram(args[1]))


\* the number of "{" of toks that are still open after its last token
RECURSIVE OpenBraces(_, _)
OpenBraces(toks, k) ==
    IF k = 0 THEN 0
    ELSE LET before == OpenBraces(toks, k - 1)
         IN  IF IsWord(toks[k], << "{" >>) THEN before + 1
             ELSE IF IsWord(toks[k], << "}" >>) /\ before > 0 THEN before - 1
             ELSE before

Unclosed(toks) == OpenBraces(toks, Len(toks)) > 0

\* C18: for a queue in which a "{" has no matching "}" Parser::program ends
\* with a parse error: it neither panics nor returns an AST.
C18_UnclosedBraceIsError ==
    Unclosed(tokens) =>
        /\ pc \notin {"program_panic"} \cup
                     {"parsed", "generator", "generate", "generate_panic",
                      "done"}
        /\ (pc = "program" /\ token_queue # tokens) =>
               at_eof(token_queue) = [st |-> "ok", val |-> FALSE]


\* C19: gen_addr of a Var prints the lea of the variable's final offset,
\* gen_addr of a Deref generates the inner expression as a value, and
\* gen_addr of any other node raises an error: nothing more is generated.
C19_GenAddrRejectsNonLvalues ==
    [][ (pc = "generate" /\ work # <<>> /\ Head(work).op = "gen_addr") =>
            LET node == Head(work).node
            IN  CASE node.kind = "Var" ->
                       /\ node.name \in DOMAIN locals
                       /\ out' = Append(out,
                                   Line("  lea -{}(%rbp), %rax",
                                        locals[node.name].offset))
                       /\ pc' = "generate"
                  [] node.kind = "Deref" ->
                       /\ work' = << GenExprCall(node.lhs) >> \o Tail(work)
                       /\ out' = out
                       /\ pc' = "generate"
                  [] OTHER ->
                       /\ pc' \notin {"generate", "done"}
                       /\ out' = out ]_vars


\* the number of "*" that stand directly before position k of toks
RECURSIVE StarsBefore(_, _)
StarsBefore(toks, k) ==
    IF k > 1 /\ IsWord(toks[k - 1], << "*" >>)
    THEN StarsBefore(toks, k - 1) + 1 ELSE 0

\* the positions of toks where a declarator names the variable name
DeclPositions(toks, name) ==
    { k \in 1 .. Len(toks) :
        IsIdent(toks[k]) /\ toks[k].text = name /\ IsDeclPos(toks, k) }

\* the type that the first declarator of name gives it
FirstType(toks, name) ==
    LET first == CHOOSE k \in DeclPositions(toks, name) :
                     \A j \in DeclPositions(toks, name) : k <= j
    IN  PtrTo(I32, StarsBefore(toks, first))

\* the queue is "{ int", declarators ("*"s and a name) separated by commas,
\* "; }" and the end marker
IsDeclInput ==
    LET n == Len(tokens)
    IN  /\ n >= 5
        /\ SubSeq(tokens, 1, 2) = << R("{"), TkReserved(KwInt) >>
        /\ SubSeq(tokens, n - 2, n) = << R(";"), R("}"), TkEof >>
        /\ \A k \in 3 .. n - 3 :
              \/ /\ IsWord(tokens[k], << "*" >>)
                 /\ IsIdent(tokens[k + 1]) \/ IsWord(tokens[k + 1], << "*" >>)
              \/ /\ IsWord(tokens[k], << "," >>)
                 /\ k > 3
                 /\ IsIdent(tokens[k + 1]) \/ IsWord(tokens[k + 1], << "*" >>)
              \/ /\ IsIdent(tokens[k])
                 /\ k = n - 3 \/ IsWord(tokens[k + 1], << "," >>)

\* C20: a declarator that names a declared variable is no error and leaves
\* the symbol table as it is: the name keeps the type of its first
\* declarator, locals and locals_dequeue hold every declared name once, and
\* the frame size is the one of the distinct names.
C20_RedeclarationKeepsFirst ==
    /\ (IsDeclInput /\ ~BeforeParse) =>
           pc \notin {"program_err", "program_panic"}
    /\ ParsedOk =>
           LET d == Declared
           IN  /\ DOMAIN locals = { d[n] : n \in 1 .. Len(d) }
               /\ Len(locals_dequeue) = Len(d)
               /\ \A n \in 1 .. Len(d) :
                     locals[d[n]].type = FirstType(tokens, d[n])
               /\ OffsetsAssigned =>
                     stack_size = 16 * ((Len(d) + 1) \div 2)

\* "{ int a, *a; }" generated: a declared as int and again as pointer
C20_Witness ==
    /\ pc = "done"
    /\ tokens = << R("{"), TkReserved(KwInt), IdA, R(","), R("*"), IdA,
                   R(";"), R("}"), TkEof >>
    /\ locals[<< "a" >>].type = I32
    /\ locals_dequeue = << << "a" >> >>
    /\ stack_size = 16


\* the next character after the spaces at the scan position is none that a
\* token can begin with
AtUnexpectedCharacter ==
    LET j == skip_whitespace(s, i)
    IN  /\ j < Len(s)
        /\ ~is_digit(s[j + 1])
        /\ ~is_alpha(s[j + 1])
        /\ s[j + 1] \notin ClaimedSingles \cup {"!"}

\* C21: the tokenizer terminates.  Each call of generate_token in the loop
\* strictly increases the scan position or returns an error; the loop ends
\* with the position at the end of the text and TkEof appended, or with an
\* error; at a character that is no space, digit, punctuator or identifier
\* start it ends with an error, and after an error no queue is returned.
C21_TokenizerTerminates ==
    /\ [][ (pc = "tokenizer" /\ i < Len(s)) =>
              \/ i' > i /\ i' <= Len(s) /\ pc' = "tokenizer"
              \/ pc' = "tokenizer_err" ]_vars
    /\ [][ (pc = "tokenizer" /\ i < Len(s) /\ AtUnexpectedCharacter) =>
              pc' = "tokenizer_err" ]_vars
    /\ [][ (pc = "tokenizer" /\ i >= Len(s)) =>
              /\ pc' = "tokenized"
              /\ tokens' = Append(tokens, TkEof) ]_vars
    /\ [][ pc # "tokenizer_err" ]_vars
    /\ [](pc = "tokenized" => i = Len(s))
    /\ <>(pc \in {"tokenized", "tokenizer_err"})

\* "1+@": two tokens, then the error at @
C21_Witness ==
    /\ pc = "tokenizer_err"
    /\ s = << "1", "+", "@" >>
    /\ Len(tokens) = 2
    /\ i = 2


\* a is what is left of b after tokens were taken from its front
IsSuffix(a, b) ==
    /\ Len(a) <= Len(b)
    /\ a = SubSeq(b, Len(b) - Len(a) + 1, Len(b))

\* the texts the queue is asked for
AskedTexts ==
    { << "+" >>, << "*" >>, << ";" >>, << "," >>, << "{" >>, << "}" >>,
      << "=" >>, KwInt, KwReturn }

\* the contract of consume_reserve, consume_ident and expect_reserve on the
\* queue q
QueueContract(q) ==
    /\ \A op \in AskedTexts :
          LET c == consume_reserve(q, op)
              e == expect_reserve(q, op)
          IN  IF Head(q) = TkReserved(op)
              THEN /\ c = [st |-> "ok", val |-> TRUE, tq |-> Tail(q)]
                   /\ e = [st |-> "ok", tq |-> Tail(q)]
              ELSE /\ c = [st |-> "ok", val |-> FALSE, tq |-> q]
                   /\ e = [st |-> "err", tq |-> q]
    /\ LET id == consume_ident(q)
       IN  IF Head(q).tk = "TkIdent"
           THEN id = [st |-> "ok", name |-> Head(q).text, tq |-> Tail(q)]
           ELSE id = [st |-> "ok", name |-> <<>>, tq |-> q]

\* C22: on every queue the parser works on (what is left of its queue at
\* any point) consume_reserve(op) takes exactly the front token and returns
\* true when that token is reserved with text op, and otherwise returns
\* false and leaves the queue as it is; consume_ident takes exactly a front
\* identifier and otherwise leaves the queue as it is; a failing
\* expect_reserve leaves the queue as it is.  A parser step only takes
\* tokens from the front: the queue never grows and is never reordered.
C22_QueueOnlyShrinks ==
    /\ [](pc = "program" =>
            /\ token_queue # <<>>
            /\ \A k \in 1 .. Len(token_queue) :
                  QueueContract(SubSeq(token_queue, k, Len(token_queue))))
    /\ [][ pc = "program" =>
              /\ IsSuffix(token_queue', token_queue)
              /\ Len(token_queue') <= Len(token_queue) ]_vars

\* Parser::program has parsed one statement and stands before the "return"
\* of the next
C22_Witness ==
    /\ pc = "program"
    /\ token_queue # tokens
    /\ Len(token_queue) > 1
    /\ Head(token_queue) = TkReserved(KwReturn)


\* the positions of the queue where a declarator names a variable
AllDeclPositions ==
    { k \in 1 .. Len(tokens) : IsIdent(tokens[k]) /\ IsDeclPos(tokens, k) }

\* C23: the keys of locals are exactly the names of locals_dequeue, which
\* holds no name twice; after assign_lvar_offset the offsets are pairwise
\* different multiples of 8 from 8 to 8 times the number of locals, and none
\* is greater than stack_size.
C23_FrameSlotsDisjoint ==
    LET k_locals == Len(locals_dequeue)
    IN  /\ DOMAIN locals = { locals_dequeue[k] : k \in 1 .. k_locals }
        /\ \A j, k \in 1 .. k_locals :
              locals_dequeue[j] = locals_dequeue[k] => j = k
        /\ OffsetsAssigned =>
              /\ \A n \in DOMAIN locals :
                    /\ locals[n].offset % 8 = 0
                    /\ locals[n].offset >= 8
                    /\ locals[n].offset <= 8 * k_locals
                    /\ locals[n].offset <= stack_size
              /\ \A m, n \in DOMAIN locals :
                    locals[m].offset = locals[n].offset => m = n

\* generate is done for a queue with four declarators of three names
C23_Witness ==
    /\ pc = "done"
    /\ Len(locals_dequeue) = 3
    /\ Cardinality(AllDeclPositions) = 4
    /\ stack_size = 32

====
